---- MODULE Spec2Model ----
(***************************************************************************)
(* Model of pkg/monoimporter: the four finders, find, New, NewFromZips     *)
(* and Importer.Import.                                                    *)
(*                                                                         *)
(* Go strings are sequences of one-character strings, so that              *)
(* strings.HasSuffix, strings.TrimPrefix, fmt.Sprintf and filepath.Join    *)
(* are computed character by character.                                    *)
(***************************************************************************)
EXTENDS Naturals, Sequences, FiniteSets, TLC

VARIABLES
    imports,      \* Importer.imports: import path -> *types.Package (NoPkg = no key)
    stdlibZip,    \* Importer.stdlibZip: Nil or a zipReader
    mapped,       \* Importer.mapped: Nil or a mappedArchives
    stdlib,       \* Importer.stdlib: Nil or a stdlibArchives
    unmapped,     \* Importer.unmapped: Nil or an unmappedArchives
    fsFiles,      \* regular files of the file system that os.Open can open
    fsDirs,       \* directories of the file system
    openStreams,  \* number of io.ReadClosers opened and not yet closed
    history,      \* one record per completed Import call, oldest first
    ctor          \* how the importer was constructed, and the zip files
                  \* zip.OpenReader opened for it that are still open

vars == <<imports, stdlibZip, mapped, stdlib, unmapped, fsFiles, fsDirs,
          openStreams, history, ctor>>

\* Number of Import calls of one session.
MaxCalls == 2

\* Number of lookups made on the finders alone.
MaxLookups == 1

(***************************************************************************)
(* Values.                                                                 *)
(***************************************************************************)
\* The nil pointer / nil interface value.
Nil == [nil |-> TRUE]

\* The absence of a key in the imports map.
NoPkg == [absent |-> TRUE]

\* The nil error.
NoErr == [msg |-> "nil"]

(***************************************************************************)
(* Strings.                                                                *)
(***************************************************************************)
\* strings.HasSuffix(s, suffix)
HasSuffix(s, suffix) ==
    /\ Len(s) >= Len(suffix)
    /\ SubSeq(s, Len(s) - Len(suffix) + 1, Len(s)) = suffix

\* strings.HasPrefix(s, prefix), as used by strings.TrimPrefix
HasPrefix(s, prefix) ==
    /\ Len(s) >= Len(prefix)
    /\ SubSeq(s, 1, Len(prefix)) = prefix

\* strings.TrimPrefix(s, prefix)
TrimPrefix(s, prefix) ==
    IF HasPrefix(s, prefix) THEN SubSeq(s, Len(prefix) + 1, Len(s)) ELSE s

\* strings.Split(s, sep) for a one-character separator: the pieces of s
\* between the separators, one more than there are separators.
RECURSIVE Split(_, _)
Split(s, sep) ==
    IF \A k \in 1..Len(s) : s[k] # sep THEN <<s>>
    ELSE LET at == CHOOSE k \in 1..Len(s) :
                       s[k] = sep /\ \A j \in 1..(k - 1) : s[j] # sep
         IN  <<SubSeq(s, 1, at - 1)>> \o Split(SubSeq(s, at + 1, Len(s)), sep)

\* filepath.Clean on the paths that occur here: runs of separators collapse
\* to one, and a trailing separator is dropped.
RECURSIVE Clean(_)
Clean(p) ==
    IF Len(p) <= 1 THEN p
    ELSE IF Head(p) = "/" /\ p[2] = "/" THEN Clean(Tail(p))
    ELSE IF Len(p) = 2 /\ p[2] = "/" THEN <<Head(p)>>
    ELSE <<Head(p)>> \o Clean(Tail(p))

\* filepath.Join(dir, name)
Join(dir, name) ==
    IF dir = <<>> THEN Clean(name)
    ELSE IF name = <<>> THEN Clean(dir)
    ELSE Clean(dir \o <<"/">> \o name)

\* The monorepo root prefix "google3/" stripped by the bundle and the
\* unmapped finder.
Google3 == <<"g", "o", "o", "g", "l", "e", "3", "/">>

\* The import path "unsafe".
Unsafe == <<"u", "n", "s", "a", "f", "e">>

(***************************************************************************)
(* build.Context and goEnvDir.                                             *)
(***************************************************************************)
\* The build context of the session: GOOS "l", GOARCH "a", no install suffix.
ctxt == [GOOS |-> <<"l">>, GOARCH |-> <<"a">>, InstallSuffix |-> <<>>]

\* goEnvDir: GOOS_GOARCH[_InstallSuffix]
goEnvDir(c) ==
    LET suffix == IF Len(c.InstallSuffix) > 0
                  THEN <<"_">> \o c.InstallSuffix
                  ELSE <<>>
    IN  c.GOOS \o <<"_">> \o c.GOARCH \o suffix

(***************************************************************************)
(* Streams and the file system.                                            *)
(***************************************************************************)
\* The io.ReadCloser of a file-system file.
FileStream(path) == [store |-> "fs", name |-> path]

\* The io.ReadCloser of a zip entry.
ZipStream(name) == [store |-> "zip", name |-> name]

\* os.Open(path): the stream, or Nil when the open fails.
osOpen(path) ==
    IF path \in fsFiles \/ path \in fsDirs THEN FileStream(path) ELSE Nil

\* os.Stat(path) succeeds and reports a directory.
IsDir(path) == path \in fsDirs

(***************************************************************************)
(* The finders.  findAndOpen returns the stream it hands back (file, Nil   *)
(* for a miss) together with the streams it opened on the way (opens).     *)
(***************************************************************************)
Miss == [file |-> Nil, opens |-> <<>>]

Found(rc) == [file |-> rc, opens |-> <<rc>>]

\* newZipReader: the name -> *zip.File index of the bundle; of two entries
\* of one name the later one stays.
newZipReader(zr, c) ==
    LET names == {zr.File[k].Name : k \in 1..Len(zr.File)}
        last(n) == CHOOSE k \in 1..Len(zr.File) :
                       /\ zr.File[k].Name = n
                       /\ \A j \in (k + 1)..Len(zr.File) : zr.File[j].Name # n
    IN  [ctxt |-> c, files |-> [n \in names |-> zr.File[last(n)]]]

\* zip.File.Open: the stream, or Nil when the entry cannot be read.
zipOpen(f) == IF f.Readable THEN ZipStream(f.Name) ELSE Nil

\* Mutant of zipFindAndOpen: the root prefix is not stripped.
zipFindAndOpenNoTrim(z, pkg) ==
    LET name == goEnvDir(z.ctxt) \o <<"/">> \o pkg \o <<".", "x">>
    IN  IF name \notin DOMAIN z.files THEN Miss
        ELSE LET rc == zipOpen(z.files[name])
             IN  IF rc = Nil THEN Miss ELSE Found(rc)

\* zipReader.findAndOpen
zipFindAndOpen(z, pkg) ==
    LET p == TrimPrefix(pkg, Google3)
        name == goEnvDir(z.ctxt) \o <<"/">> \o p \o <<".", "x">>
    IN  IF name \notin DOMAIN z.files THEN Miss
        ELSE LET rc == zipOpen(z.files[name])
             IN  IF rc = Nil THEN Miss ELSE Found(rc)

\* Mutant of stdlibScan: an archive file is opened without the suffix test.
RECURSIVE stdlibScanNoSuffix(_, _, _)
stdlibScanNoSuffix(archs, name, k) ==
    IF k > Len(archs) THEN Miss
    ELSE LET filename == archs[k]
             f == IF IsDir(filename) THEN osOpen(Join(filename, name)) ELSE Nil
             ar == osOpen(filename)
         IN  IF f # Nil THEN Found(f)
             ELSE IF ar # Nil THEN Found(ar)
             ELSE stdlibScanNoSuffix(archs, name, k + 1)

\* The loop of stdlibArchives.findAndOpen over a.archs[k..]
RECURSIVE stdlibScan(_, _, _)
stdlibScan(archs, name, k) ==
    IF k > Len(archs) THEN Miss
    ELSE LET filename == archs[k]
             f == IF IsDir(filename) THEN osOpen(Join(filename, name)) ELSE Nil
             ar == IF HasSuffix(filename, name) THEN osOpen(filename) ELSE Nil
         IN  IF f # Nil THEN Found(f)
             ELSE IF ar # Nil THEN Found(ar)
             ELSE stdlibScan(archs, name, k + 1)

\* stdlibArchives.findAndOpen
stdlibFindAndOpen(a, pkg) ==
    LET name == <<"/">> \o goEnvDir(a.ctxt) \o <<"/">> \o pkg \o <<".", "a">>
    IN  stdlibScan(a.archs, name, 1)

\* Mutant of unmappedScan: the scan gives up at the first matching file
\* that does not open.
RECURSIVE unmappedScanStopAtFailure(_, _, _)
unmappedScanStopAtFailure(archs, name, k) ==
    IF k > Len(archs) THEN Miss
    ELSE IF HasSuffix(archs[k], name)
         THEN LET ar == osOpen(archs[k])
              IN  IF ar # Nil THEN Found(ar) ELSE Miss
         ELSE unmappedScanStopAtFailure(archs, name, k + 1)

\* The loop of unmappedArchives.findAndOpen over a.archs[k..]
RECURSIVE unmappedScan(_, _, _)
unmappedScan(archs, name, k) ==
    IF k > Len(archs) THEN Miss
    ELSE LET filename == archs[k]
             ar == IF HasSuffix(filename, name) THEN osOpen(filename) ELSE Nil
         IN  IF ar # Nil THEN Found(ar)
             ELSE unmappedScan(archs, name, k + 1)

\* Mutant of unmappedFindAndOpen: the suffix lacks its leading separator.
unmappedFindAndOpenNoSlash(a, pkg) ==
    LET p == TrimPrefix(pkg, Google3)
        name == p \o <<".", "x">>
    IN  unmappedScan(a.archs, name, 1)

\* unmappedArchives.findAndOpen
unmappedFindAndOpen(a, pkg) ==
    LET p == TrimPrefix(pkg, Google3)
        name == <<"/">> \o p \o <<".", "x">>
    IN  unmappedScan(a.archs, name, 1)

\* Mutant of mappedFindAndOpen: the error test inverted, so that a file
\* that opened is not the one returned.
mappedFindAndOpenInverted(a, pkg) ==
    IF pkg \in DOMAIN a.pkgs
    THEN LET f == osOpen(a.pkgs[pkg])
         IN  IF f = Nil THEN Miss ELSE [file |-> Nil, opens |-> <<f>>]
    ELSE Miss

\* mappedArchives.findAndOpen
mappedFindAndOpen(a, pkg) ==
    IF pkg \in DOMAIN a.pkgs
    THEN LET f == osOpen(a.pkgs[pkg])
         IN  IF f = Nil THEN Miss ELSE Found(f)
    ELSE Miss

\* finder.findAndOpen, dispatched on the finder's dynamic type.
findAndOpen(f, pkg) ==
    CASE f.kind = "stdlibZip" -> zipFindAndOpen(f.impl, pkg)
      [] f.kind = "mapped"    -> mappedFindAndOpen(f.impl, pkg)
      [] f.kind = "stdlib"    -> stdlibFindAndOpen(f.impl, pkg)
      [] f.kind = "unmapped"  -> unmappedFindAndOpen(f.impl, pkg)

\* The loop of find over finders[k..]: the first stream found, the finders
\* invoked (in order) and every stream opened.
RECURSIVE findFrom(_, _, _)
findFrom(finders, pkg, k) ==
    IF k > Len(finders) THEN [file |-> Nil, invoked |-> <<>>, opens |-> <<>>]
    ELSE IF finders[k].impl = Nil THEN findFrom(finders, pkg, k + 1)
    ELSE LET r == findAndOpen(finders[k], pkg)
         IN  IF r.file # Nil
             THEN [file |-> r.file, invoked |-> <<finders[k].kind>>,
                   opens |-> r.opens]
             ELSE LET rest == findFrom(finders, pkg, k + 1)
                  IN  [file |-> rest.file,
                       invoked |-> <<finders[k].kind>> \o rest.invoked,
                       opens |-> r.opens \o rest.opens]

\* find
find(finders, pkg) == findFrom(finders, pkg, 1)

(***************************************************************************)
(* Packages and the decoder (golang.org/x/tools/go/gcexportdata).          *)
(***************************************************************************)
\* types.Unsafe: the package "unsafe", complete from the start.
UnsafePkg == [path |-> Unsafe, complete |-> TRUE,
              data |-> [store |-> "builtin", name |-> Unsafe]]

\* A package the decoder has only seen referenced: in the map, not complete.
Placeholder(path) == [path |-> path, complete |-> FALSE, data |-> Nil]

\* The import paths of a session.
Pkgs == { Unsafe,
          <<"e">>,
          <<"v", "/", "e">>,
          Google3 \o <<"e">> }

\* What the decoder does with one stream: res is the outcome of
\* gcexportdata.NewReader followed by gcexportdata.Read, refs the packages
\* Read met in the export data before it returned.
DecodeOutcomes ==
    {[res |-> "NewReaderErr", refs |-> {}]}
    \cup {[res |-> r, refs |-> d] :
              r \in {"ok", "ReadErr"}, d \in {{}} \cup {{q} : q \in Pkgs}}

\* The error of gcexportdata.NewReader and of gcexportdata.Read.
DecoderErr(res) == [msg |-> res]

\* The imports map after Read has added the packages it met: a key that is
\* already there keeps its package.
AddRefs(imp, refs) ==
    [q \in Pkgs |-> IF q \in refs /\ imp[q] = NoPkg THEN Placeholder(q)
                    ELSE imp[q]]

\* gcexportdata.Read(r, fset, imports, path) on the stream file: the package,
\* the error and the imports map it leaves.
Read(imp, path, file, out) ==
    IF out.res = "ok"
    THEN LET pkg == [path |-> path, complete |-> TRUE, data |-> file]
         IN  [pkg |-> pkg, err |-> NoErr,
              imports |-> [AddRefs(imp, out.refs) EXCEPT ![path] = pkg]]
    ELSE [pkg |-> Nil, err |-> DecoderErr(out.res),
          imports |-> AddRefs(imp, out.refs)]

(***************************************************************************)
(* Importer.Import.                                                        *)
(***************************************************************************)
\* Mutant of cached: the Complete() test negated.
cachedNotComplete(imp, importPath) ==
    /\ imp[importPath] # NoPkg
    /\ ~imp[importPath].complete

\* Mutant of cached: any entry of the map is returned, complete or not.
cachedAnyEntry(imp, importPath) == imp[importPath] # NoPkg

\* Import, line 271: the cache holds a complete package for importPath.
cached(imp, importPath) ==
    /\ imp[importPath] # NoPkg
    /\ imp[importPath].complete

\* Mutants of finderChain: the finders appended in another order.
finderChainItem(kind, impl) ==
    IF impl # Nil THEN <<[kind |-> kind, impl |-> impl]>> ELSE <<>>

finderChainMappedFirst ==
    finderChainItem("mapped", mapped) \o finderChainItem("stdlibZip", stdlibZip)
    \o finderChainItem("stdlib", stdlib) \o finderChainItem("unmapped", unmapped)

finderChainSuffixFirst ==
    finderChainItem("stdlib", stdlib) \o finderChainItem("unmapped", unmapped)
    \o finderChainItem("stdlibZip", stdlibZip) \o finderChainItem("mapped", mapped)

finderChainUnmappedFirst ==
    finderChainItem("stdlibZip", stdlibZip) \o finderChainItem("mapped", mapped)
    \o finderChainItem("unmapped", unmapped) \o finderChainItem("stdlib", stdlib)

\* Import, lines 275-294: the finders of this call, nil ones left out.
finderChain ==
    LET one(kind, impl) == IF impl # Nil
                           THEN <<[kind |-> kind, impl |-> impl]>>
                           ELSE <<>>
    IN  one("stdlibZip", stdlibZip) \o one("mapped", mapped)
        \o one("stdlib", stdlib) \o one("unmapped", unmapped)

\* Mutant of NotFound: the error does not name the package.
NotFoundNoPath(importPath) == [msg |-> "not found", path |-> <<>>]

\* Import, line 297: the error of a package no finder has.
NotFound(importPath) == [msg |-> "not found", path |-> importPath]

\* Mutant of deferredClose: the defer is missing.
deferredCloseMissing(file) == <<>>

\* Import, line 299: the streams the deferred file.Close() closes.
deferredClose(file) == <<file>>

\* Mutant of decode: Read is given a fresh map instead of i.imports.
decodeFreshMap(imp, importPath, file, out) ==
    IF out.res = "NewReaderErr"
    THEN [pkg |-> Nil, err |-> DecoderErr(out.res), imports |-> imp,
          decoder |-> <<"NewReader">>, decErr |-> DecoderErr(out.res)]
    ELSE LET r == Read([q \in Pkgs |-> NoPkg], importPath, file, out)
         IN  [pkg |-> r.pkg, err |-> r.err, imports |-> imp,
              decoder |-> <<"NewReader", "Read">>, decErr |-> r.err]

\* Mutant of decode: Read fills a scratch map, whose entries then overwrite
\* those of i.imports.
decodeMergeScratch(imp, importPath, file, out) ==
    IF out.res = "NewReaderErr"
    THEN [pkg |-> Nil, err |-> DecoderErr(out.res), imports |-> imp,
          decoder |-> <<"NewReader">>, decErr |-> DecoderErr(out.res)]
    ELSE LET r == Read([q \in Pkgs |-> NoPkg], importPath, file, out)
         IN  [pkg |-> r.pkg, err |-> r.err,
              imports |-> [q \in Pkgs |-> IF r.imports[q] # NoPkg
                                          THEN r.imports[q] ELSE imp[q]],
              decoder |-> <<"NewReader", "Read">>, decErr |-> r.err]

\* Mutant of decode: the decoder's error is wrapped before it is returned.
decodeWrappedErr(imp, importPath, file, out) ==
    LET wrap(e) == IF e = NoErr THEN NoErr
                   ELSE [msg |-> "import failed", cause |-> e.msg]
    IN  IF out.res = "NewReaderErr"
        THEN [pkg |-> Nil, err |-> wrap(DecoderErr(out.res)), imports |-> imp,
              decoder |-> <<"NewReader">>, decErr |-> DecoderErr(out.res)]
        ELSE LET r == Read(imp, importPath, file, out)
             IN  [pkg |-> r.pkg, err |-> wrap(r.err), imports |-> r.imports,
                  decoder |-> <<"NewReader", "Read">>, decErr |-> r.err]

\* Import, lines 301-305: the decoder's reader, then its Read.
decode(imp, importPath, file, out) ==
    IF out.res = "NewReaderErr"
    THEN [pkg |-> Nil, err |-> DecoderErr(out.res), imports |-> imp,
          decoder |-> <<"NewReader">>, decErr |-> DecoderErr(out.res)]
    ELSE LET r == Read(imp, importPath, file, out)
         IN  [pkg |-> r.pkg, err |-> r.err, imports |-> r.imports,
              decoder |-> <<"NewReader", "Read">>, decErr |-> r.err]

\* One whole Import(importPath) call from the cache imp, the decoder
\* behaving as out: what it returns, what it leaves and what it did.
ImportCall(imp, importPath, out) ==
    IF cached(imp, importPath)
    THEN [path |-> importPath, pkg |-> imp[importPath], err |-> NoErr,
          imports |-> imp, hit |-> TRUE, invoked |-> <<>>, opens |-> <<>>,
          closed |-> <<>>, decoded |-> Nil, decoder |-> <<>>,
          decErr |-> NoErr]
    ELSE LET f == find(finderChain, importPath)
         IN  IF f.file = Nil
             THEN [path |-> importPath, pkg |-> Nil,
                   err |-> NotFound(importPath), imports |-> imp,
                   hit |-> FALSE, invoked |-> f.invoked, opens |-> f.opens,
                   closed |-> <<>>, decoded |-> Nil, decoder |-> <<>>,
                   decErr |-> NoErr]
             ELSE LET d == decode(imp, importPath, f.file, out)
                  IN  [path |-> importPath, pkg |-> d.pkg, err |-> d.err,
                       imports |-> d.imports, hit |-> FALSE,
                       invoked |-> f.invoked, opens |-> f.opens,
                       closed |-> deferredClose(f.file), decoded |-> f.file,
                       decoder |-> d.decoder, decErr |-> d.decErr]

\* The history record of a call: everything but the cache it leaves.
CallRecord(c) ==
    [path |-> c.path, pkg |-> c.pkg, err |-> c.err, hit |-> c.hit,
     invoked |-> c.invoked, opens |-> c.opens, closed |-> c.closed,
     decoded |-> c.decoded, decoder |-> c.decoder, decErr |-> c.decErr]

\* What the decoder may do in a call of Import(importPath): any of its
\* outcomes when the call reaches it, and nothing otherwise.
OutcomesIn(imp, importPath) ==
    IF cached(imp, importPath) \/ find(finderChain, importPath).file = Nil
    THEN {[res |-> "ok", refs |-> {}]}
    ELSE DecodeOutcomes

\* Importer.Import(importPath)
Import(importPath) ==
    /\ ctor.phase = "built"
    /\ Len(history) < MaxCalls
    /\ \E out \in OutcomesIn(imports, importPath) :
         \E c \in {ImportCall(imports, importPath, out)} :
             /\ imports' = c.imports
             /\ openStreams' = (openStreams + Len(c.opens)) - Len(c.closed)
             /\ history' = Append(history, CallRecord(c))
    /\ UNCHANGED <<stdlibZip, mapped, stdlib, unmapped, fsFiles, fsDirs, ctor>>

(***************************************************************************)
(* New and the configurations of a session.                                *)
(***************************************************************************)
\* The *zip.Reader values passed to New: none, or a bundle with the
\* entry l_a/e.x, which can be read or cannot.
ZipReaders ==
    { Nil,
      [File |-> <<[Name |-> <<"l", "_", "a", "/", "e", ".", "x">>,
                   Readable |-> TRUE]>>],
      [File |-> <<[Name |-> <<"l", "_", "a", "/", "e", ".", "x">>,
                   Readable |-> FALSE]>>] }

\* The *mappedArchives values: none, or v/e -> m/ve.a.
MappedArchives ==
    { Nil,
      [pkgs |-> [k \in {<<"v", "/", "e">>} |-> <<"m", "/", "v", "e", ".", "a">>]] }

\* The *stdlibArchives values: none, the directory s, or the archive file
\* t/l_a/e.a.
StdlibArchives ==
    { Nil,
      [ctxt |-> ctxt, archs |-> << <<"s">> >>],
      [ctxt |-> ctxt,
       archs |-> << <<"t", "/", "l", "_", "a", "/", "e", ".", "a">> >>] }

\* The *unmappedArchives values: none, or the archive file x/v/e.x.
UnmappedArchives ==
    { Nil,
      [archs |-> << <<"x", "/", "v", "/", "e", ".", "x">> >>] }

\* The file systems: every archive readable, or m/ve.a and t/l_a/e.a
\* missing.
AllFiles ==
    { <<"m", "/", "v", "e", ".", "a">>,
      <<"s", "/", "l", "_", "a", "/", "e", ".", "a">>,
      <<"t", "/", "l", "_", "a", "/", "e", ".", "a">>,
      <<"x", "/", "v", "/", "e", ".", "x">> }

FileSystems ==
    { AllFiles,
      AllFiles \ { <<"m", "/", "v", "e", ".", "a">>,
                   <<"t", "/", "l", "_", "a", "/", "e", ".", "a">> } }

\* The construction record of an importer that New built from finders the
\* caller made: no zip file was opened for it.
BuiltByNew ==
    [phase |-> "built", by |-> "New", args |-> Nil, err |-> NoErr,
     tried |-> <<>>, open |-> <<>>]

\* Mutant of New: the imports map starts empty.
NewUnseeded(c, ua, ma, sa, zr) ==
    [imports |-> [p \in Pkgs |-> NoPkg],
     mapped |-> ma,
     stdlib |-> sa,
     unmapped |-> ua,
     stdlibZip |-> IF zr # Nil THEN newZipReader(zr, c) ELSE Nil]

\* New(ctxt, ua, ma, sa, stdlibZip): the importer's fields.
New(c, ua, ma, sa, zr) ==
    [imports |-> [p \in Pkgs |-> IF p = Unsafe THEN UnsafePkg ELSE NoPkg],
     mapped |-> ma,
     stdlib |-> sa,
     unmapped |-> ua,
     stdlibZip |-> IF zr # Nil THEN newZipReader(zr, c) ELSE Nil]

Init ==
    /\ fsFiles \in FileSystems
    /\ fsDirs = { <<"s">> }
    /\ \E ua \in UnmappedArchives, ma \in MappedArchives,
          sa \in StdlibArchives, zr \in ZipReaders :
         LET i == New(ctxt, ua, ma, sa, zr)
         IN  /\ imports = i.imports
             /\ mapped = i.mapped
             /\ stdlib = i.stdlib
             /\ unmapped = i.unmapped
             /\ stdlibZip = i.stdlibZip
    /\ openStreams = 0
    /\ history = <<>>
    /\ ctor = BuiltByNew

Next == \E importPath \in Pkgs : Import(importPath)

Spec == Init /\ [][Next]_vars

(***************************************************************************)
(* The finders on their own: findAndOpen of one finder and find over the   *)
(* chain, on stores with several candidates, some of which do not open.    *)
(***************************************************************************)
\* The import paths looked up: e, me, v/e and google3/e.
FinderPkgs ==
    { <<"e">>, <<"m", "e">>, <<"v", "/", "e">>, Google3 \o <<"e">> }

\* The bundle: l_a/e.x, l_a/me.x, l_b/e.x, l_a/google3/e.x, and l_a/v/e.x,
\* which cannot be read.
FinderBundle ==
    [File |-> <<
        [Name |-> <<"l", "_", "a", "/", "e", ".", "x">>, Readable |-> TRUE],
        [Name |-> <<"l", "_", "a", "/", "m", "e", ".", "x">>, Readable |-> TRUE],
        [Name |-> <<"l", "_", "b", "/", "e", ".", "x">>, Readable |-> TRUE],
        [Name |-> <<"l", "_", "a", "/">> \o Google3 \o <<"e", ".", "x">>,
         Readable |-> TRUE],
        [Name |-> <<"l", "_", "a", "/", "v", "/", "e", ".", "x">>,
         Readable |-> FALSE] >>]

\* The map: e -> m/e.a, v/e -> m/ve.a.
FinderMapped ==
    [pkgs |-> [k \in {<<"e">>, <<"v", "/", "e">>} |->
                  IF k = <<"e">> THEN <<"m", "/", "e", ".", "a">>
                  ELSE <<"m", "/", "v", "e", ".", "a">>]]

\* The standard-library lists: a directory before an archive file; archive
\* files before the directory; and an archive of another package, one under
\* another architecture directory and a directory named like an archive.
FinderStdlibArchives ==
    { [ctxt |-> ctxt,
       archs |-> << <<"s">>,
                    <<"t", "/", "l", "_", "a", "/", "e", ".", "a">> >>],
      [ctxt |-> ctxt,
       archs |-> << <<"u", "/", "l", "_", "a", "/", "e", ".", "a">>,
                    <<"t", "/", "l", "_", "a", "/", "e", ".", "a">>,
                    <<"s">> >>],
      [ctxt |-> ctxt,
       archs |-> << <<"t", "/", "l", "_", "a", "/", "m", "e", ".", "a">>,
                    <<"t", "/", "x", "l", "_", "a", "/", "e", ".", "a">>,
                    <<"d", "/", "l", "_", "a", "/", "e", ".", "a">> >>] }

\* The unmapped lists: x/me.x, e.x, y/e.x, x/v/e.x in two orders.
FinderUnmappedArchives ==
    { [archs |-> << <<"x", "/", "m", "e", ".", "x">>,
                    <<"e", ".", "x">>,
                    <<"y", "/", "e", ".", "x">>,
                    <<"x", "/", "v", "/", "e", ".", "x">> >>],
      [archs |-> << <<"x", "/", "v", "/", "e", ".", "x">>,
                    <<"y", "/", "e", ".", "x">>,
                    <<"e", ".", "x">>,
                    <<"x", "/", "m", "e", ".", "x">> >>] }

\* The files: all of them there, or m/ve.a, s/l_a/e.a, u/l_a/e.a and y/e.x
\* missing.
FinderFiles ==
    { <<"m", "/", "e", ".", "a">>,
      <<"m", "/", "v", "e", ".", "a">>,
      <<"s", "/", "l", "_", "a", "/", "e", ".", "a">>,
      <<"t", "/", "l", "_", "a", "/", "e", ".", "a">>,
      <<"u", "/", "l", "_", "a", "/", "e", ".", "a">>,
      <<"t", "/", "l", "_", "a", "/", "m", "e", ".", "a">>,
      <<"t", "/", "x", "l", "_", "a", "/", "e", ".", "a">>,
      <<"x", "/", "m", "e", ".", "x">>,
      <<"e", ".", "x">>,
      <<"y", "/", "e", ".", "x">>,
      <<"x", "/", "v", "/", "e", ".", "x">> }

FinderFileSystems ==
    { FinderFiles,
      FinderFiles \ { <<"m", "/", "v", "e", ".", "a">>,
                      <<"s", "/", "l", "_", "a", "/", "e", ".", "a">>,
                      <<"u", "/", "l", "_", "a", "/", "e", ".", "a">>,
                      <<"y", "/", "e", ".", "x">> } }

\* The directories: s, and d/l_a/e.a.
FinderDirs == { <<"s">>, <<"d", "/", "l", "_", "a", "/", "e", ".", "a">> }

\* The finder of a kind held by the importer.
finderOf(kind) ==
    CASE kind = "stdlibZip" -> stdlibZip
      [] kind = "mapped"    -> mapped
      [] kind = "stdlib"    -> stdlib
      [] kind = "unmapped"  -> unmapped

\* f.findAndOpen(pkg) on one finder; the stream it returns stays open with
\* the caller.
FindAndOpen(kind, pkg) ==
    /\ Len(history) < MaxLookups
    /\ finderOf(kind) # Nil
    /\ \E r \in {findAndOpen([kind |-> kind, impl |-> finderOf(kind)], pkg)} :
         /\ history' = Append(history,
                [op |-> "findAndOpen", kind |-> kind, path |-> pkg,
                 file |-> r.file, opens |-> r.opens,
                 invoked |-> <<kind>>])
         /\ openStreams' = openStreams + Len(r.opens)
    /\ UNCHANGED <<imports, stdlibZip, mapped, stdlib, unmapped, fsFiles,
                   fsDirs, ctor>>

\* find(finders, pkg) over the importer's chain.
Find(pkg) ==
    /\ Len(history) < MaxLookups
    /\ \E r \in {find(finderChain, pkg)} :
         /\ history' = Append(history,
                [op |-> "find", kind |-> "chain", path |-> pkg,
                 file |-> r.file, opens |-> r.opens,
                 invoked |-> r.invoked])
         /\ openStreams' = openStreams + Len(r.opens)
    /\ UNCHANGED <<imports, stdlibZip, mapped, stdlib, unmapped, fsFiles,
                   fsDirs, ctor>>

InitFinders ==
    /\ fsFiles \in FinderFileSystems
    /\ fsDirs = FinderDirs
    /\ \E ua \in FinderUnmappedArchives, sa \in FinderStdlibArchives :
         LET i == New(ctxt, ua, FinderMapped, sa, FinderBundle)
         IN  /\ imports = i.imports
             /\ mapped = i.mapped
             /\ stdlib = i.stdlib
             /\ unmapped = i.unmapped
             /\ stdlibZip = i.stdlibZip
    /\ openStreams = 0
    /\ history = <<>>
    /\ ctor = BuiltByNew

NextFinders ==
    \/ \E kind \in {"stdlibZip", "mapped", "stdlib", "unmapped"},
          pkg \in FinderPkgs : FindAndOpen(kind, pkg)
    \/ \E pkg \in FinderPkgs : Find(pkg)

SpecFinders == InitFinders /\ [][NextFinders]_vars

(***************************************************************************)
(* NewFromZips: the bundle is picked from the zip files by base name, the  *)
(* mapped archives are parsed from name:file pairs, and New builds the     *)
(* importer.                                                               *)
(***************************************************************************)
\* filepath.Base: the last element of the path, trailing separators
\* removed; "." for the empty path and "/" for a path of separators only.
RECURSIVE Base(_)
Base(path) ==
    IF path = <<>> THEN <<".">>
    ELSE IF path[Len(path)] = "/"
    THEN IF Len(path) = 1 THEN <<"/">> ELSE Base(SubSeq(path, 1, Len(path) - 1))
    ELSE LET cs == Split(path, "/") IN cs[Len(cs)]

\* filepath.Match for a pattern of literal characters and '*', which
\* matches any sequence of non-separator characters.  Such a pattern is
\* never malformed, so the error result is nil.
RECURSIVE Match(_, _)
Match(pattern, name) ==
    IF pattern = <<>> THEN name = <<>>
    ELSE IF Head(pattern) = "*"
    THEN \/ Match(Tail(pattern), name)
         \/ /\ name # <<>>
            /\ Head(name) # "/"
            /\ Match(pattern, Tail(name))
    ELSE /\ name # <<>>
         /\ Head(name) = Head(pattern)
         /\ Match(Tail(pattern), Tail(name))

\* wantPattern: goEnvDir of the context with GOARCH + "*", then ".x.zip".
wantPattern(c) ==
    goEnvDir([c EXCEPT !.GOARCH = @ \o <<"*">>])
    \o <<".", "x", ".", "z", "i", "p">>

\* The zip files zip.OpenReader can open, with what they hold: z/l_a.x.zip
\* holds l_a/e.x, z/l_ax.x.zip an l_a/e.x that cannot be read, z/l_b.x.zip
\* is the bundle of another architecture.  b/l_a.x.zip is not among them.
ZipsOnDisk ==
    [p \in { <<"z", "/", "l", "_", "a", ".", "x", ".", "z", "i", "p">>,
             <<"z", "/", "l", "_", "a", "x", ".", "x", ".", "z", "i", "p">>,
             <<"z", "/", "l", "_", "b", ".", "x", ".", "z", "i", "p">> } |->
        IF p = <<"z", "/", "l", "_", "a", ".", "x", ".", "z", "i", "p">>
        THEN [File |-> <<[Name |-> <<"l", "_", "a", "/", "e", ".", "x">>,
                          Readable |-> TRUE]>>]
        ELSE IF p = <<"z", "/", "l", "_", "a", "x", ".", "x", ".", "z", "i", "p">>
        THEN [File |-> <<[Name |-> <<"l", "_", "a", "/", "e", ".", "x">>,
                          Readable |-> FALSE]>>]
        ELSE [File |-> <<[Name |-> <<"l", "_", "b", "/", "e", ".", "x">>,
                          Readable |-> TRUE]>>]]

\* zip.OpenReader(name): the reader of a file that stays open until the
\* reader is closed, or an error that leaves no file open.
zipOpenReader(name) ==
    IF name \in DOMAIN ZipsOnDisk
    THEN [Reader |-> ZipsOnDisk[name], err |-> NoErr]
    ELSE [Reader |-> Nil, err |-> [msg |-> "open", path |-> name]]

\* Mutant of selectStdlibZip: a matching zip file that does not open is
\* skipped.
RECURSIVE selectStdlibZipSkipUnopenable(_, _)
selectStdlibZipSkipUnopenable(pattern, stdlibZips) ==
    IF stdlibZips = <<>>
    THEN [stdlib |-> Nil, err |-> NoErr, tried |-> <<>>, open |-> <<>>]
    ELSE IF Match(pattern, Base(Head(stdlibZips)))
    THEN LET stdlibZ == zipOpenReader(Head(stdlibZips))
         IN  IF stdlibZ.err # NoErr
             THEN LET rest == selectStdlibZipSkipUnopenable(pattern,
                                  Tail(stdlibZips))
                  IN  [rest EXCEPT !.tried = <<Head(stdlibZips)>> \o @]
             ELSE [stdlib |-> stdlibZ.Reader, err |-> NoErr,
                   tried |-> <<Head(stdlibZips)>>,
                   open |-> <<Head(stdlibZips)>>]
    ELSE selectStdlibZipSkipUnopenable(pattern, Tail(stdlibZips))

\* NewFromZips, lines 219-231: the loop over stdlibZips.  tried lists the
\* files zip.OpenReader was called on, open those it opened.
RECURSIVE selectStdlibZip(_, _)
selectStdlibZip(pattern, stdlibZips) ==
    IF stdlibZips = <<>>
    THEN [stdlib |-> Nil, err |-> NoErr, tried |-> <<>>, open |-> <<>>]
    ELSE IF Match(pattern, Base(Head(stdlibZips)))
    THEN LET stdlibZ == zipOpenReader(Head(stdlibZips))
         IN  IF stdlibZ.err # NoErr
             THEN [stdlib |-> Nil, err |-> stdlibZ.err,
                   tried |-> <<Head(stdlibZips)>>, open |-> <<>>]
             ELSE [stdlib |-> stdlibZ.Reader, err |-> NoErr,
                   tried |-> <<Head(stdlibZips)>>,
                   open |-> <<Head(stdlibZips)>>]
    ELSE selectStdlibZip(pattern, Tail(stdlibZips))

\* The error of a mapped archive that is not goImportPath:goArchiveFilePath.
ErrNotPair(nameAndFile) ==
    [msg |-> "is not goImportPath:goArchiveFilePath", archive |-> nameAndFile]

\* Mutant of parseMappedArchs: an entry with more than one ':' is taken
\* for a pair.
RECURSIVE parseMappedArchsLenient(_, _)
parseMappedArchsLenient(mappedArchs, pkgs) ==
    IF mappedArchs = <<>> THEN [pkgs |-> pkgs, err |-> NoErr]
    ELSE LET nameAndFile == Split(Head(mappedArchs), ":")
         IN  IF Len(nameAndFile) < 2
             THEN [pkgs |-> pkgs, err |-> ErrNotPair(nameAndFile)]
             ELSE parseMappedArchsLenient(Tail(mappedArchs),
                      [k \in DOMAIN pkgs \cup {nameAndFile[1]} |->
                          IF k = nameAndFile[1] THEN nameAndFile[2]
                          ELSE pkgs[k]])

\* NewFromZips, lines 233-242: the loop over mappedArchs, adding to the map
\* pkgs.
RECURSIVE parseMappedArchs(_, _)
parseMappedArchs(mappedArchs, pkgs) ==
    IF mappedArchs = <<>> THEN [pkgs |-> pkgs, err |-> NoErr]
    ELSE LET nameAndFile == Split(Head(mappedArchs), ":")
         IN  IF Len(nameAndFile) # 2
             THEN [pkgs |-> pkgs, err |-> ErrNotPair(nameAndFile)]
             ELSE parseMappedArchs(Tail(mappedArchs),
                      [k \in DOMAIN pkgs \cup {nameAndFile[1]} |->
                          IF k = nameAndFile[1] THEN nameAndFile[2]
                          ELSE pkgs[k]])

\* NewFromZips(ctxt, unmappedArchs, mappedArchs, stdlibArchs, stdlibZips):
\* the importer or the error, the zip files tried and the zip files left
\* open on return; nothing in it closes a zip file.
NewFromZipsCall(c, unmappedArchs, mappedArchs, stdlibArchs, stdlibZips) ==
    LET z  == selectStdlibZip(wantPattern(c), stdlibZips)
        ma == parseMappedArchs(mappedArchs, [k \in {} |-> <<>>])
    IN  IF z.err # NoErr
        THEN [importer |-> Nil, err |-> z.err,
              tried |-> z.tried, open |-> z.open]
        ELSE IF ma.err # NoErr
        THEN [importer |-> Nil, err |-> ma.err,
              tried |-> z.tried, open |-> z.open]
        ELSE [importer |-> New(c, [archs |-> unmappedArchs],
                               [pkgs |-> ma.pkgs],
                               [ctxt |-> c, archs |-> stdlibArchs],
                               z.stdlib),
              err |-> NoErr, tried |-> z.tried, open |-> z.open]

\* The lists of zip files: none; the bundle of another architecture, alone
\* and before the matching one; two matching ones; a matching one that
\* does not open before and after one that does; and a path that only has
\* a matching directory name.
StdlibZipLists ==
    { <<>>,
      << <<"z", "/", "l", "_", "b", ".", "x", ".", "z", "i", "p">> >>,
      << <<"z", "/", "l", "_", "b", ".", "x", ".", "z", "i", "p">>,
         <<"z", "/", "l", "_", "a", ".", "x", ".", "z", "i", "p">> >>,
      << <<"z", "/", "l", "_", "a", "x", ".", "x", ".", "z", "i", "p">>,
         <<"z", "/", "l", "_", "a", ".", "x", ".", "z", "i", "p">> >>,
      << <<"b", "/", "l", "_", "a", ".", "x", ".", "z", "i", "p">>,
         <<"z", "/", "l", "_", "a", ".", "x", ".", "z", "i", "p">> >>,
      << <<"z", "/", "l", "_", "a", ".", "x", ".", "z", "i", "p">>,
         <<"b", "/", "l", "_", "a", ".", "x", ".", "z", "i", "p">> >>,
      << <<"l", "_", "a", ".", "x", ".", "z", "i", "p", "/", "z">> >> }

\* The lists of mapped archives: none; v/e:m/ve.a; o, without separator;
\* v/e:m:a, with two; a pair before o; and two pairs for v/e.
MappedArchLists ==
    { <<>>,
      << <<"v", "/", "e", ":", "m", "/", "v", "e", ".", "a">> >>,
      << <<"o">> >>,
      << <<"v", "/", "e", ":", "m", ":", "a">> >>,
      << <<"v", "/", "e", ":", "m", "/", "v", "e", ".", "a">>, <<"o">> >>,
      << <<"v", "/", "e", ":", "m", "/", "n", "o", ".", "a">>,
         <<"v", "/", "e", ":", "m", "/", "v", "e", ".", "a">> >> }

\* The lists of unmapped archives: none, or x/v/e.x.
UnmappedArchLists ==
    { <<>>, << <<"x", "/", "v", "/", "e", ".", "x">> >> }

\* Before NewFromZips has run there is no importer.
NotConstructed ==
    [phase |-> "new", by |-> "NewFromZips", args |-> Nil, err |-> NoErr,
     tried |-> <<>>, open |-> <<>>]

\* The call NewFromZips(ctxt, unmappedArchs, mappedArchs, stdlibArchs,
\* stdlibZips) of the driver.
NewFromZips(unmappedArchs, mappedArchs, stdlibArchs, stdlibZips) ==
    /\ ctor.phase = "new"
    /\ \E r \in {NewFromZipsCall(ctxt, unmappedArchs, mappedArchs,
                                 stdlibArchs, stdlibZips)} :
         /\ ctor' = [phase |-> IF r.err = NoErr THEN "built" ELSE "failed",
                     by |-> "NewFromZips",
                     args |-> [unmappedArchs |-> unmappedArchs,
                               mappedArchs |-> mappedArchs,
                               stdlibArchs |-> stdlibArchs,
                               stdlibZips |-> stdlibZips],
                     err |-> r.err, tried |-> r.tried, open |-> r.open]
         /\ IF r.err = NoErr
            THEN /\ imports' = r.importer.imports
                 /\ mapped' = r.importer.mapped
                 /\ stdlib' = r.importer.stdlib
                 /\ unmapped' = r.importer.unmapped
                 /\ stdlibZip' = r.importer.stdlibZip
            ELSE UNCHANGED <<imports, mapped, stdlib, unmapped, stdlibZip>>
    /\ UNCHANGED <<fsFiles, fsDirs, openStreams, history>>

InitZips ==
    /\ fsFiles = AllFiles
    /\ fsDirs = { <<"s">> }
    /\ imports = Nil
    /\ mapped = Nil
    /\ stdlib = Nil
    /\ unmapped = Nil
    /\ stdlibZip = Nil
    /\ openStreams = 0
    /\ history = <<>>
    /\ ctor = NotConstructed

NextZips ==
    \/ \E unmappedArchs \in UnmappedArchLists, mappedArchs \in MappedArchLists,
          stdlibZips \in StdlibZipLists :
         NewFromZips(unmappedArchs, mappedArchs, << <<"s">> >>, stdlibZips)
    \/ \E importPath \in Pkgs : Import(importPath)

SpecZips == InitZips /\ [][NextZips]_vars

(***************************************************************************)
(* Vocabulary of the properties.                                           *)
(***************************************************************************)
\* The calls made so far, and the last of them.  The configuration and the
\* file system never change, so a property of a single call is stated of
\* the latest call (Calls \cap {Len(history)}): every call is the latest in
\* the state it returns to.
Calls == 1..Len(history)

Last == history[Len(history)]

\* The step is one Import call.
Called == Len(history') = Len(history) + 1

\* The strategies in the documented order: bundle, mapped-archive,
\* directory/archive, unmapped-archive.
StrategyOrder == <<"stdlibZip", "mapped", "stdlib", "unmapped">>

StrategyImpl(kind) ==
    CASE kind = "stdlibZip" -> stdlibZip
      [] kind = "mapped"    -> mapped
      [] kind = "stdlib"    -> stdlib
      [] kind = "unmapped"  -> unmapped

IsConfigured(kind) == StrategyImpl(kind) # Nil

ConfiguredOrder == SelectSeq(StrategyOrder, IsConfigured)

\* The stream the strategy kind has for path p, Nil when it has none or is
\* not configured.
StreamOf(kind, p) ==
    IF IsConfigured(kind)
    THEN findAndOpen([kind |-> kind, impl |-> StrategyImpl(kind)], p).file
    ELSE Nil

\* The first strategy, in ConfiguredOrder, with a stream for p (0: none).
FirstMatch(p) ==
    LET hits == {k \in 1..Len(ConfiguredOrder) :
                     StreamOf(ConfiguredOrder[k], p) # Nil}
    IN  IF hits = {} THEN 0
        ELSE CHOOSE k \in hits : \A j \in hits : k <= j

\* The number of gcexportdata.Read calls of a call record.
Reads(h) == Len(SelectSeq(h.decoder, LAMBDA d : d = "Read"))

\* The call record h is a call whose decode succeeded.
Decoded(h) == h.decoded # Nil /\ h.decErr = NoErr

(***************************************************************************)
(* C1.  Cache fast path: an Import(importPath) called when the cache holds *)
(* a complete package for importPath returns exactly that package and no   *)
(* error, and in that call no finder is invoked, no file is opened and the *)
(* decoder is not called.                                                  *)
(***************************************************************************)
C1_CacheFastPath ==
    [][ \A p \in Pkgs :
          (/\ Called
           /\ Last'.path = p
           /\ imports[p] # NoPkg
           /\ imports[p].complete)
          => /\ Last'.pkg = imports[p]
             /\ Last'.err = NoErr
             /\ Last'.invoked = <<>>
             /\ Last'.opens = <<>>
             /\ Last'.decoder = <<>>
             /\ imports' = imports ]_vars

\* A call served from the cache for a package an earlier call decoded,
\* while a finder is configured that has a stream for it.
C1_Witness ==
    /\ Len(history) = 2
    /\ Last.path # Unsafe
    /\ Last.hit
    /\ Last.pkg = history[1].pkg
    /\ FirstMatch(Last.path) # 0

(***************************************************************************)
(* C2.  Strategy precedence: every Import call that misses the cache       *)
(* invokes the configured finders in the order bundle, mapped-archive,     *)
(* directory/archive, unmapped-archive, unconfigured ones skipped, up to   *)
(* and including the first that returns a stream; that stream is the one   *)
(* handed to the decoder, and no finder after it is invoked.               *)
(***************************************************************************)
C2_StrategyPrecedence ==
    \A i \in Calls \cap {Len(history)} :
    \A h \in {history[i]} :
    \A k \in {FirstMatch(h.path)} :
        ~h.hit =>
          IF k = 0
          THEN /\ h.invoked = ConfiguredOrder
               /\ h.decoded = Nil
               /\ h.decoder = <<>>
          ELSE /\ h.invoked = SubSeq(ConfiguredOrder, 1, k)
               /\ h.decoded = StreamOf(ConfiguredOrder[k], h.path)
               /\ h.decoder # <<>>

\* A call in which two finders missed, the third returned the stream and a
\* fourth, configured one was not invoked.
C2_Witness ==
    /\ Len(history) >= 1
    /\ Len(Last.invoked) = 3
    /\ Len(ConfiguredOrder) = 4
    /\ Last.decoded # Nil

(***************************************************************************)
(* C3.  Exact match before suffix match: for an import path that an        *)
(* exact-match store (bundle or mapped archives) and a suffix-match store  *)
(* (directory/archive or unmapped archives) both hold, with different      *)
(* content, the stream Import decodes and the package it returns are the   *)
(* exact-match store's.                                                    *)
(***************************************************************************)
ExactContents(p) == {StreamOf(k, p) : k \in {"stdlibZip", "mapped"}} \ {Nil}

SuffixContents(p) == {StreamOf(k, p) : k \in {"stdlib", "unmapped"}} \ {Nil}

InBothKinds(p) ==
    /\ ExactContents(p) # {}
    /\ SuffixContents(p) # {}
    /\ ExactContents(p) \cap SuffixContents(p) = {}

C3_ExactBeforeSuffix ==
    \A i \in Calls \cap {Len(history)} :
    \A h \in {history[i]} :
    \A exact \in {ExactContents(h.path)} :
        InBothKinds(h.path) =>
          /\ ~h.hit => h.decoded \in exact
          /\ h.pkg # Nil => h.pkg.data \in exact

\* A call that returned the mapped archive's package for a path the
\* unmapped archives hold too.
C3_Witness ==
    /\ Len(history) >= 1
    /\ InBothKinds(Last.path)
    /\ StreamOf("mapped", Last.path) # Nil
    /\ StreamOf("unmapped", Last.path) # Nil
    /\ Last.pkg # Nil
    /\ Last.pkg.data = StreamOf("mapped", Last.path)

(***************************************************************************)
(* C4.  Standard library before third party: for an import path that       *)
(* matches a standard-library archive of the directory/archive store and   *)
(* also an archive path of the unmapped store (e vs x/v/e.x), Import       *)
(* returns a standard-library package, never the unmapped store's, and     *)
(* does not invoke the unmapped finder.                                    *)
(***************************************************************************)
StdlibContents(p) == {StreamOf(k, p) : k \in {"stdlibZip", "stdlib"}} \ {Nil}

InStdlibAndUnmapped(p) ==
    /\ StreamOf("stdlib", p) # Nil
    /\ StreamOf("unmapped", p) # Nil

C4_StdlibBeforeUnmapped ==
    \A i \in Calls \cap {Len(history)} :
    \A h \in {history[i]} :
    \A third \in {StreamOf("unmapped", h.path)} :
        (StreamOf("stdlib", h.path) # Nil /\ third # Nil) =>
          /\ h.decoded # third
          /\ \A k \in 1..Len(h.invoked) : h.invoked[k] # "unmapped"
          /\ h.pkg # Nil =>
               /\ h.pkg.data \in StdlibContents(h.path)
               /\ h.pkg.data # third

\* A call, with no bundle configured, that returned the package of the
\* standard-library archive for a path the unmapped store matches too.
C4_Witness ==
    /\ Len(history) >= 1
    /\ stdlibZip = Nil
    /\ InStdlibAndUnmapped(Last.path)
    /\ Last.pkg # Nil
    /\ Last.pkg.data = StreamOf("stdlib", Last.path)

(***************************************************************************)
(* C5.  As claimed: two Import calls of one session with the same import   *)
(* path perform exactly one file-open and exactly one decode call in       *)
(* total.  Stated here of the paths the claim is about, those a finder     *)
(* has a stream for when the first call looks them up.                     *)
(***************************************************************************)
OpensAndReadsOfPair(i, j) ==
    [opens |-> Len(history[i].opens) + Len(history[j].opens),
     readers |-> Len(history[i].decoder) + Len(history[j].decoder)
                 - (Reads(history[i]) + Reads(history[j])),
     reads |-> Reads(history[i]) + Reads(history[j])]

C5_AnyTwoCallsOneOpenOneDecode ==
    \A i, j \in Calls :
        (i < j /\ history[i].path = history[j].path /\ history[i].decoded # Nil) =>
            OpensAndReadsOfPair(i, j) = [opens |-> 1, readers |-> 1, reads |-> 1]

(***************************************************************************)
(* C5, amended.  Two Import calls of one session with the same import      *)
(* path, the first of which finds a stream and decodes it successfully,    *)
(* open exactly one file and make exactly one decode call (one NewReader,  *)
(* one Read) in total.                                                     *)
(***************************************************************************)
C5_TwoCallsOneOpenOneDecodeAfterSuccess ==
    \A i, j \in Calls :
        (i < j /\ history[i].path = history[j].path /\ Decoded(history[i])) =>
            OpensAndReadsOfPair(i, j) = [opens |-> 1, readers |-> 1, reads |-> 1]

\* The same path imported twice, decoded by the first call and served by
\* the second without a file or the decoder.
C5_Witness ==
    /\ Len(history) = 2
    /\ history[1].path = history[2].path
    /\ Decoded(history[1])
    /\ Len(history[1].opens) = 1
    /\ history[2].opens = <<>>
    /\ history[2].decoder = <<>>

(***************************************************************************)
(* C6.  After an Import(importPath) whose decode succeeds the cache holds  *)
(* a complete package for importPath, the one the call returned, and every *)
(* later Import(importPath) returns that same package with no error and    *)
(* without invoking a finder.                                              *)
(***************************************************************************)
C6_DecodedThenCached ==
    \A i \in Calls :
    \A h \in {history[i]} :
        Decoded(h) =>
          /\ h.err = NoErr
          /\ h.pkg # Nil
          /\ h.pkg.complete
          /\ h.pkg.path = h.path
          /\ imports[h.path] = h.pkg
          /\ \A j \in Calls :
               (i < j /\ history[j].path = h.path) =>
                 /\ history[j].pkg = h.pkg
                 /\ history[j].err = NoErr
                 /\ history[j].invoked = <<>>

\* A successful decode followed by a second Import of the same path.
C6_Witness ==
    /\ Len(history) = 2
    /\ Decoded(history[1])
    /\ history[2].path = history[1].path
    /\ history[2].pkg = history[1].pkg
    /\ imports[history[1].path] = history[1].pkg

(***************************************************************************)
(* C7.  Not found: an Import(importPath) called when the cache has no      *)
(* complete package for importPath and no configured finder has a stream   *)
(* for it returns no package and the not-found error carrying importPath.  *)
(***************************************************************************)
C7_NotFound ==
    [][ \A p \in Pkgs :
          (/\ Called
           /\ Last'.path = p
           /\ ~(imports[p] # NoPkg /\ imports[p].complete)
           /\ \A k \in 1..Len(StrategyOrder) : StreamOf(StrategyOrder[k], p) = Nil)
          => /\ Last'.pkg = Nil
             /\ Last'.err = [msg |-> "not found", path |-> p] ]_vars

\* An Import of a path other than unsafe on an importer with no finder at
\* all, which ended in not-found.
C7_Witness ==
    /\ Len(history) >= 1
    /\ ConfiguredOrder = <<>>
    /\ Last.path # Unsafe
    /\ Last.pkg = Nil
    /\ Last.err.msg = "not found"

(***************************************************************************)
(* C8.  Built-in module: in every state, from construction on, the cache   *)
(* holds the package unsafe and it is complete; an Import of unsafe        *)
(* returns it with no error, with or without finders, and invokes none.    *)
(***************************************************************************)
C8_UnsafeAlwaysComplete ==
    /\ imports[Unsafe] # NoPkg
    /\ imports[Unsafe].complete
    /\ imports[Unsafe].path = Unsafe
    /\ \A i \in Calls :
         history[i].path = Unsafe =>
           /\ history[i].pkg = imports[Unsafe]
           /\ history[i].err = NoErr
           /\ history[i].invoked = <<>>
           /\ history[i].opens = <<>>

\* An Import of unsafe that succeeded on an importer with no finder.
C8_Witness ==
    /\ Len(history) >= 1
    /\ ConfiguredOrder = <<>>
    /\ Last.path = Unsafe
    /\ Last.err = NoErr
    /\ Last.pkg # Nil
    /\ Last.pkg.complete

(***************************************************************************)
(* C9.  Streams are scoped: every stream a finder opened during an Import  *)
(* call is closed when the call returns, whether the decode succeeded, the *)
(* decoder's reader could not be created or the decode failed; between     *)
(* calls no stream is open.                                                *)
(***************************************************************************)
C9_StreamsClosed ==
    /\ openStreams = 0
    /\ \A i \in Calls : history[i].closed = history[i].opens

\* A call that failed creating the decoder's reader and a call whose decode
\* failed, each after opening a stream, with no stream left open.
C9_Witness ==
    /\ Len(history) = 2
    /\ history[1].opens # <<>>
    /\ history[1].decErr.msg = "NewReaderErr"
    /\ history[2].opens # <<>>
    /\ history[2].decErr.msg = "ReadErr"
    /\ openStreams = 0

(***************************************************************************)
(* C10.  Decode failure: an Import that found a stream the decoder         *)
(* rejected returns the decoder's error as it is and no package; the cache *)
(* then holds no complete package for the path, and the next Import of     *)
(* the path goes to the finders again.                                     *)
(***************************************************************************)
C10_DecodeFailure ==
    \A i \in Calls :
    \A h \in {history[i]} :
        (h.decoded # Nil /\ h.decErr # NoErr) =>
          /\ h.err = h.decErr
          /\ h.pkg = Nil
          /\ (\A k \in Calls : k > i => history[k].path # h.path)
               => ~(imports[h.path] # NoPkg /\ imports[h.path].complete)
          /\ \A j \in Calls :
               (/\ i < j
                /\ history[j].path = h.path
                /\ \A k \in Calls : (i < k /\ k < j) => history[k].path # h.path)
               => /\ ~history[j].hit
                  /\ history[j].invoked # <<>>
                  /\ history[j].decoded = h.decoded

\* A failed Read that left a placeholder for the path in the cache,
\* followed by a second Import of the path that went to the finders.
C10_Witness ==
    /\ Len(history) = 2
    /\ history[1].decErr.msg = "ReadErr"
    /\ history[2].path = history[1].path
    /\ history[2].invoked # <<>>
    /\ imports[history[1].path] # NoPkg

(***************************************************************************)
(* C12.  Incomplete entries are not trusted: an Import(importPath) called  *)
(* when the cache holds an entry for importPath that is not complete does  *)
(* not return from the fast path; it invokes the finders and the decoder   *)
(* as it does for a path with no entry at all.                             *)
(***************************************************************************)
C12_IncompleteReResolved ==
    [][ \A p \in Pkgs :
          (/\ Called
           /\ Last'.path = p
           /\ imports[p] # NoPkg
           /\ ~imports[p].complete)
          => \A k \in {FirstMatch(p)} :
               /\ ~Last'.hit
               /\ Last'.pkg # imports[p]
               /\ IF k = 0
                  THEN /\ Last'.invoked = ConfiguredOrder
                       /\ Last'.decoder = <<>>
                       /\ Last'.err = [msg |-> "not found", path |-> p]
                  ELSE /\ Last'.invoked = SubSeq(ConfiguredOrder, 1, k)
                       /\ Last'.decoded = StreamOf(ConfiguredOrder[k], p)
                       /\ Last'.opens = <<Last'.decoded>>
                       /\ Last'.decoder # <<>> ]_vars

\* A decode that left an incomplete entry for another path, then an Import
\* of that path which went to the finders and to the decoder (whose reader
\* failed, so the entry is still the one the first call left).
C12_Witness ==
    /\ Len(history) = 2
    /\ history[1].path # history[2].path
    /\ Decoded(history[1])
    /\ imports[history[2].path] # NoPkg
    /\ ~imports[history[2].path].complete
    /\ ~history[2].hit
    /\ history[2].invoked # <<>>
    /\ history[2].decoder = <<"NewReader">>

(***************************************************************************)
(* C13.  Complete entries are final: once the cache maps an import path to *)
(* a complete package, no later step of the session removes that mapping   *)
(* or replaces the package.                                                *)
(***************************************************************************)
C13_CompleteEntriesFinal ==
    [][ \A p \in Pkgs :
          (imports[p] # NoPkg /\ imports[p].complete)
          => imports'[p] = imports[p] ]_vars

\* A decode of another path after the first call completed its package,
\* which is still the cache's entry.
C13_Witness ==
    /\ Len(history) = 2
    /\ Decoded(history[1])
    /\ history[2].path # history[1].path
    /\ history[2].decoded # Nil
    /\ imports[history[1].path] = history[1].pkg

(***************************************************************************)
(* C18.  Frame of not-found: an Import call that returns the not-found     *)
(* error leaves the cache and the finders' configuration as they were,     *)
(* opens no stream and does not call the decoder.                          *)
(***************************************************************************)
C18_NotFoundFrame ==
    [][ (Called /\ Last'.err.msg = "not found")
        => /\ imports' = imports
           /\ <<stdlibZip, mapped, stdlib, unmapped>>' =
                  <<stdlibZip, mapped, stdlib, unmapped>>
           /\ Last'.opens = <<>>
           /\ Last'.closed = <<>>
           /\ Last'.decoder = <<>>
           /\ openStreams' = openStreams ]_vars

\* A not-found call that invoked finders, after a call that had left
\* something in the cache.
C18_Witness ==
    /\ Len(history) = 2
    /\ history[1].decoded # Nil
    /\ Last.err.msg = "not found"
    /\ Last.invoked # <<>>
    /\ \E q \in Pkgs : q # Unsafe /\ imports[q] # NoPkg

(***************************************************************************)
(* Vocabulary of the finder properties.                                    *)
(***************************************************************************)
\* os.Open succeeds on the path.
Openable(path) == path \in fsFiles \/ path \in fsDirs

\* The least number of a non-empty set of numbers.
Least(S) == CHOOSE k \in S : \A j \in S : k <= j

\* The import path without the root prefix google3/, when it has it.
Stripped(p) ==
    IF Len(p) >= Len(Google3) /\ \A k \in 1..Len(Google3) : p[k] = Google3[k]
    THEN [k \in 1..(Len(p) - Len(Google3)) |-> p[k + Len(Google3)]]
    ELSE p

\* The architecture key of the session, l_a.
ArchKey == <<"l", "_", "a">>

\* The path s ends with the path t at a component boundary with at least
\* one component before it: the /-separated components of t are the last
\* ones of s, and s has more.
EndsWithComponents(s, t) ==
    \A cs \in {Split(s, "/")} : \A ts \in {Split(t, "/")} :
        /\ Len(cs) > Len(ts)
        /\ SubSeq(cs, Len(cs) - Len(ts) + 1, Len(cs)) = ts

\* The candidates of the unmapped list that match p and open.
UnmappedHits(p) ==
    {k \in 1..Len(unmapped.archs) :
        /\ EndsWithComponents(unmapped.archs[k], Stripped(p) \o <<".", "x">>)
        /\ Openable(unmapped.archs[k])}

\* The stream a standard-library candidate c yields for p: the file
\* c/l_a/p.a when c is a directory that has it, else c itself when it ends
\* with /l_a/p.a and opens, else none.
StdlibYield(c, p) ==
    LET inDir == c \o <<"/">> \o ArchKey \o <<"/">> \o p \o <<".", "a">>
    IN  IF c \in fsDirs /\ inDir \in fsFiles THEN FileStream(inDir)
        ELSE IF EndsWithComponents(c, ArchKey \o <<"/">> \o p \o <<".", "a">>)
                /\ Openable(c)
        THEN FileStream(c)
        ELSE Nil

StdlibHits(p) ==
    {k \in 1..Len(stdlib.archs) : StdlibYield(stdlib.archs[k], p) # Nil}

(***************************************************************************)
(* C14.  Lookups do not fail on an open error: a finder without a          *)
(* matching entry, and equally one whose matching entry or file does not   *)
(* open, returns no stream; a list-based finder goes on to its later       *)
(* candidates and find goes on to the next finder, so that a later one     *)
(* supplies the stream.                                                    *)
(***************************************************************************)
C14_OpenFailureIsAMiss ==
    \A i \in Calls \cap {Len(history)} :
    \A h \in {history[i]} :
        /\ h.kind = "stdlibZip" =>
             \A name \in {ArchKey \o <<"/">> \o Stripped(h.path) \o <<".", "x">>} :
                 h.file = IF /\ name \in DOMAIN stdlibZip.files
                             /\ stdlibZip.files[name].Readable
                          THEN ZipStream(name) ELSE Nil
        /\ h.kind = "mapped" =>
             h.file = IF /\ h.path \in DOMAIN mapped.pkgs
                         /\ Openable(mapped.pkgs[h.path])
                      THEN FileStream(mapped.pkgs[h.path]) ELSE Nil
        /\ h.kind = "unmapped" =>
             \A hits \in {UnmappedHits(h.path)} :
                 h.file = IF hits = {} THEN Nil
                          ELSE FileStream(unmapped.archs[Least(hits)])
        /\ h.kind = "stdlib" =>
             \A hits \in {StdlibHits(h.path)} :
                 h.file = IF hits = {} THEN Nil
                          ELSE StdlibYield(stdlib.archs[Least(hits)], h.path)
        /\ h.kind = "chain" =>
             \A k \in {FirstMatch(h.path)} :
                 /\ h.file = IF k = 0 THEN Nil
                             ELSE StreamOf(ConfiguredOrder[k], h.path)
                 /\ h.invoked = IF k = 0 THEN ConfiguredOrder
                                ELSE SubSeq(ConfiguredOrder, 1, k)

\* A find for v/e to which the unmapped finder supplied the stream, the
\* bundle's entry for it not being readable and the mapped file missing.
C14_Witness ==
    /\ Len(history) >= 1
    /\ Last.kind = "chain"
    /\ Last.path = <<"v", "/", "e">>
    /\ <<"l", "_", "a", "/", "v", "/", "e", ".", "x">> \in DOMAIN stdlibZip.files
    /\ Last.path \in DOMAIN mapped.pkgs
    /\ ~Openable(mapped.pkgs[Last.path])
    /\ Last.invoked = <<"stdlibZip", "mapped", "stdlib", "unmapped">>
    /\ Last.file = FileStream(<<"x", "/", "v", "/", "e", ".", "x">>)

(***************************************************************************)
(* C15.  The directory/archive finder scans its list in order and returns  *)
(* the stream of the first candidate that opens, a directory being tried   *)
(* as <candidate>/l_a/<path>.a and a file being accepted only when its     *)
(* path ends with /l_a/<path>.a; it opens nothing after that candidate.    *)
(***************************************************************************)
C15_StdlibFirstCandidate ==
    \A i \in Calls \cap {Len(history)} :
    \A h \in {history[i]} :
        h.kind = "stdlib" =>
          \A hits \in {StdlibHits(h.path)} :
              IF hits = {}
              THEN h.file = Nil /\ h.opens = <<>>
              ELSE /\ h.file = StdlibYield(stdlib.archs[Least(hits)], h.path)
                   /\ h.opens = <<h.file>>
                   /\ \/ /\ stdlib.archs[Least(hits)] \in fsDirs
                         /\ h.file.name = stdlib.archs[Least(hits)] \o <<"/">>
                              \o ArchKey \o <<"/">> \o h.path \o <<".", "a">>
                      \/ /\ h.file.name = stdlib.archs[Least(hits)]
                         /\ EndsWithComponents(h.file.name,
                              ArchKey \o <<"/">> \o h.path \o <<".", "a">>)

\* A lookup of e that returned s/l_a/e.a from the directory s, first in
\* the list, and did not open t/l_a/e.a after it.
C15_Witness ==
    /\ Len(history) >= 1
    /\ Last.kind = "stdlib"
    /\ Last.path = <<"e">>
    /\ stdlib.archs[1] = <<"s">>
    /\ StdlibYield(stdlib.archs[2], Last.path) # Nil
    /\ Last.file = FileStream(<<"s", "/", "l", "_", "a", "/", "e", ".", "a">>)
    /\ Last.opens = <<Last.file>>

(***************************************************************************)
(* C16.  The bundle finder returns a stream only for the entry named       *)
(* exactly l_a/<path>.x, the root prefix google3/ stripped from the path   *)
(* first; it returns no stream otherwise, and never another entry.         *)
(***************************************************************************)
C16_BundleExactEntry ==
    \A i \in Calls \cap {Len(history)} :
    \A h \in {history[i]} :
        h.kind = "stdlibZip" =>
          \A name \in {ArchKey \o <<"/">> \o Stripped(h.path) \o <<".", "x">>} :
              /\ h.file # Nil => h.file = ZipStream(name)
              /\ name \notin DOMAIN stdlibZip.files => h.file = Nil

\* A lookup of google3/e that returned the entry l_a/e.x of a bundle that
\* has an entry l_a/google3/e.x too.
C16_Witness ==
    /\ Len(history) >= 1
    /\ Last.kind = "stdlibZip"
    /\ Last.path = Google3 \o <<"e">>
    /\ (<<"l", "_", "a", "/">> \o Google3 \o <<"e", ".", "x">>)
           \in DOMAIN stdlibZip.files
    /\ Last.file = ZipStream(<<"l", "_", "a", "/", "e", ".", "x">>)

(***************************************************************************)
(* C19.  Suffix matches stop at a component boundary: the unmapped finder  *)
(* returns a candidate for p only if the candidate's path ends with /,     *)
(* the path p without the root prefix, and .x, so neither x/me.x nor e.x   *)
(* is returned for e; the directory/archive finder likewise returns only   *)
(* paths that end with /l_a/p.a.                                           *)
(***************************************************************************)
C19_ComponentBoundary ==
    \A i \in Calls \cap {Len(history)} :
    \A h \in {history[i]} :
        /\ (h.kind = "unmapped" /\ h.file # Nil) =>
             EndsWithComponents(h.file.name, Stripped(h.path) \o <<".", "x">>)
        /\ (h.kind = "stdlib" /\ h.file # Nil) =>
             EndsWithComponents(h.file.name,
                 ArchKey \o <<"/">> \o h.path \o <<".", "a">>)

\* A lookup of e in the list x/me.x, e.x, y/e.x, x/v/e.x that returned
\* y/e.x.
C19_Witness ==
    /\ Len(history) >= 1
    /\ Last.kind = "unmapped"
    /\ Last.path = <<"e">>
    /\ unmapped.archs[1] = <<"x", "/", "m", "e", ".", "x">>
    /\ unmapped.archs[2] = <<"e", ".", "x">>
    /\ Openable(unmapped.archs[1])
    /\ Openable(unmapped.archs[2])
    /\ Last.file = FileStream(<<"y", "/", "e", ".", "x">>)

(***************************************************************************)
(* Vocabulary of the construction properties.                              *)
(***************************************************************************)
\* NewFromZips has returned.
Returned == ctor.by = "NewFromZips" /\ ctor.phase # "new"

\* The number of ':' in a mapped-archive entry.
Separators(entry) == Cardinality({k \in 1..Len(entry) : entry[k] = ":"})

\* The positions of the mapped-archive entries that are not name:file.
Malformed(mappedArchs) ==
    {k \in 1..Len(mappedArchs) : Separators(mappedArchs[k]) # 1}

\* The positions of the zip files whose base name is l_a<anything>.x.zip.
Matching(stdlibZips) ==
    {k \in 1..Len(stdlibZips) :
        Match(<<"l", "_", "a", "*", ".", "x", ".", "z", "i", "p">>,
              Base(stdlibZips[k]))}

(***************************************************************************)
(* C11.  NewFromZips returns an error and no importer whenever an entry    *)
(* of the mapped archives does not hold exactly one ':' (none, or two or   *)
(* more); no Import call is ever made on an importer built from such a     *)
(* list.                                                                   *)
(***************************************************************************)
C11_MalformedMappedFailsConstruction ==
    (Returned /\ Malformed(ctor.args.mappedArchs) # {}) =>
        /\ ctor.phase = "failed"
        /\ ctor.err # NoErr
        /\ imports = Nil
        /\ history = <<>>
        /\ ctor.err.msg = "open"
           \/ \A k \in {Least(Malformed(ctor.args.mappedArchs))} :
                ctor.err = ErrNotPair(Split(ctor.args.mappedArchs[k], ":"))

\* A construction that opened a bundle and then failed on v/e:m:a, an
\* entry with two separators.
C11_Witness ==
    /\ Returned
    /\ ctor.phase = "failed"
    /\ ctor.err.msg = "is not goImportPath:goArchiveFilePath"
    /\ ctor.args.mappedArchs = << <<"v", "/", "e", ":", "m", ":", "a">> >>
    /\ ctor.tried # <<>>

(***************************************************************************)
(* C17.  NewFromZips selects at most one bundle: the first zip file, in    *)
(* list order, whose base name matches the pattern.  If that file does     *)
(* not open, construction fails with its error and no later matching file  *)
(* is tried; if no file matches, the importer has no bundle finder.        *)
(***************************************************************************)
C17_FirstMatchingBundle ==
    Returned =>
      \A m \in {Matching(ctor.args.stdlibZips)} :
        IF m = {}
        THEN /\ ctor.tried = <<>>
             /\ ctor.phase = "built" => stdlibZip = Nil
        ELSE \A first \in {ctor.args.stdlibZips[Least(m)]} :
               /\ ctor.tried = <<first>>
               /\ first \notin DOMAIN ZipsOnDisk =>
                    /\ ctor.phase = "failed"
                    /\ ctor.err = [msg |-> "open", path |-> first]
                    /\ imports = Nil
               /\ (first \in DOMAIN ZipsOnDisk /\ ctor.phase = "built") =>
                    stdlibZip = newZipReader(ZipsOnDisk[first], ctxt)

\* A construction that failed on b/l_a.x.zip, which does not open, and did
\* not try z/l_a.x.zip after it, which matches and opens.
C17_Witness ==
    /\ Returned
    /\ ctor.phase = "failed"
    /\ ctor.args.stdlibZips
         = << <<"b", "/", "l", "_", "a", ".", "x", ".", "z", "i", "p">>,
              <<"z", "/", "l", "_", "a", ".", "x", ".", "z", "i", "p">> >>
    /\ ctor.tried
         = << <<"b", "/", "l", "_", "a", ".", "x", ".", "z", "i", "p">> >>

(***************************************************************************)
(* C20.  When NewFromZips returns an error, no zip file it opened is       *)
(* still open; in particular the bundle opened before a malformed entry    *)
(* of the mapped archives is found is closed.                              *)
(***************************************************************************)
C20_FailedConstructionLeavesNothingOpen ==
    (Returned /\ ctor.phase = "failed") => ctor.open = <<>>

====
